---- MODULE Spec2Model ----
(***************************************************************************)
(* movement.py: kinodynamic RRT planner, random shortcut smoother and the  *)
(* per-segment PID follower, with the __main__ pipeline that chains them.  *)
(*                                                                         *)
(* Floating point coordinates are modelled in fixed point: 1.0 = Unit, so  *)
(* a position is a pair of integers in hundredths.  A float operation that *)
(* yields a value off the grid is rounded to the nearest hundredth (half   *)
(* away from zero).  numpy's nan (0/0) is the value NaN: every ordered      *)
(* comparison with it is false and every arithmetic operation on it gives   *)
(* NaN again.                                                               *)
(***************************************************************************)
EXTENDS Integers, Sequences, FiniteSets, TLC

(* ------------------------------ bounds ------------------------------- *)

\* kinodynamic_rrt's iteration budget (parameter N)
N == 3
\* smooth_path's attempt budget (parameter max_attempts)
max_attempts == 2
\* control ticks the model follows before it stops unrolling the while loop
MaxTicks == 2
\* longest path handed directly to smooth_path / the follower
MaxLen == 3

(* --------------------------- fixed point ----------------------------- *)

Unit == 100
NaN == 1000000

IsNaN(a) == a = NaN
Abs(a) == IF a < 0 THEN -a ELSE a
Sgn(a) == IF a < 0 THEN -1 ELSE 1

\* float comparisons: false as soon as one side is nan
Lt(a, b) == ~IsNaN(a) /\ ~IsNaN(b) /\ a < b
Le(a, b) == ~IsNaN(a) /\ ~IsNaN(b) /\ a <= b
Gt(a, b) == Lt(b, a)

\* float arithmetic on scalars
Add(a, b) == IF IsNaN(a) \/ IsNaN(b) THEN NaN ELSE a + b
Sub(a, b) == IF IsNaN(a) \/ IsNaN(b) THEN NaN ELSE a - b

\* a / b rounded to the nearest integer, b > 0
RoundDiv(a, b) == Sgn(a) * ((2 * Abs(a) + b) \div (2 * b))

\* floor of the square root
RECURSIVE SqrtIter(_, _, _)
SqrtIter(n, lo, hi) ==
    IF lo >= hi THEN lo
    ELSE LET mid == (lo + hi + 1) \div 2
         IN IF mid * mid <= n THEN SqrtIter(n, mid, hi) ELSE SqrtIter(n, lo, mid - 1)
ISqrt(n) == SqrtIter(n, 0, 40000)

\* n = |v|^2 unscaled; |v| in the units of v, rounded to nearest
RoundSqrt(n) == LET r == ISqrt(n) IN IF n - r * r > r THEN r + 1 ELSE r

VSub(p, q) == <<Sub(p[1], q[1]), Sub(p[2], q[2])>>
Norm2(v) == IF IsNaN(v[1]) \/ IsNaN(v[2]) THEN NaN ELSE v[1] * v[1] + v[2] * v[2]

SetMin(S) == CHOOSE m \in S : \A x \in S : m <= x
SetMax(S) == CHOOSE m \in S : \A x \in S : m >= x
Xs(coords) == {coords[k][1] : k \in DOMAIN coords}
Ys(coords) == {coords[k][2] : k \in DOMAIN coords}

(* --------------------------- the workspace --------------------------- *)

XMin == -50
XMax == 150
YMin == -40
YMax == 40
safety_margin == 10
\* simulate's dt = 0.05 in hundredths
SimDt == 5

\* __main__'s obstacle dictionary and goal area
MainWalls == {[name |-> "wall_3",
               coordinates |-> << <<50, -15>>, <<50, 15>>, <<60, 15>>, <<60, -15>> >>]}
MainGoal == << <<90, -30>>, <<90, 30>>, <<110, 30>>, <<110, -30>> >>
\* a goal area next to the wall's upper left corner
CornerGoal == << <<40, 26>>, <<40, 36>>, <<50, 36>>, <<50, 26>> >>

(* ------------------------ geometry / collision ----------------------- *)

\* A point may be given as numerators over a common denominator den (the
\* interpolated samples of a segment); the limits are scaled to match.

is_in_goal_area(point, goal) ==
    /\ Le(SetMin(Xs(goal)), point[1]) /\ Le(point[1], SetMax(Xs(goal)))
    /\ Le(SetMin(Ys(goal)), point[2]) /\ Le(point[2], SetMax(Ys(goal)))

InWallBox(xe, coordinates, margin, den) ==
    /\ Le((SetMin(Xs(coordinates)) - margin) * den, xe[1])
    /\ Le(xe[1], (SetMax(Xs(coordinates)) + margin) * den)
    /\ Le((SetMin(Ys(coordinates)) - margin) * den, xe[2])
    /\ Le(xe[2], (SetMax(Ys(coordinates)) + margin) * den)

OutOfBounds(xe, den) ==
    \/ Lt(xe[1], XMin * den) \/ Gt(xe[1], XMax * den)
    \/ Lt(xe[2], YMin * den) \/ Gt(xe[2], YMax * den)

CollisionFreeAt(xe, ws, den) ==
    IF OutOfBounds(xe, den) THEN FALSE
    ELSE \A w \in ws : ~InWallBox(xe, w.coordinates, safety_margin, den)

is_collision_free(xe, ws) == CollisionFreeAt(xe, ws, 1)

num_samples == 100

\* np.linspace(0, 1, num_samples): t = k / (num_samples - 1), k = 0 .. num_samples - 1
LinePoint(p1, p2, k) ==
    << (num_samples - 1 - k) * p1[1] + k * p2[1],
       (num_samples - 1 - k) * p1[2] + k * p2[2] >>

is_collision_free_line(p1, p2, ws) ==
    \A k \in 0 .. (num_samples - 1) :
        CollisionFreeAt(LinePoint(p1, p2, k), ws, num_samples - 1)

(* ------------------------------ planner ------------------------------ *)

NoControl == <<>>
Node(position, parent) == [position |-> position, parent |-> parent, control |-> NoControl]

Dist2(p, q) == Norm2(VSub(p, q))

\* min(T, key=...): the first node whose key is smaller than every earlier one
RECURSIVE NearestFrom(_, _, _, _)
NearestFrom(Tr, xrand, k, best) ==
    IF k > Len(Tr) THEN best
    ELSE NearestFrom(Tr, xrand, k + 1,
            IF Lt(Dist2(Tr[k].position, xrand), Dist2(Tr[best].position, xrand))
            THEN k ELSE best)

nearest(Tr, xrand) == NearestFrom(Tr, xrand, 2, 1)

\* a / sqrt(n2) in units of 1/Unit, rounded to nearest; 0/0 is nan
UnitComponent(a, n2) ==
    IF n2 = 0 THEN NaN
    ELSE Sgn(a) * SetMax({k \in 0 .. Unit :
            k = 0 \/ (2 * k - 1) * (2 * k - 1) * n2 <= 4 * Unit * Unit * a * a})

choose_control(xnear, xrand) ==
    LET direction == VSub(xrand, xnear)
    IN <<UnitComponent(direction[1], Norm2(direction)),
         UnitComponent(direction[2], Norm2(direction))>>

Scaled(c, dt) == IF IsNaN(c) THEN NaN ELSE RoundDiv(c * dt, Unit)

simulate(xnear, control) ==
    <<Add(xnear[1], Scaled(control[1], SimDt)), Add(xnear[2], Scaled(control[2], SimDt))>>

\* the walk from the node to the root, not reversed
RECURSIVE PathToRoot(_, _)
PathToRoot(Tr, k) ==
    IF k = 0 THEN <<>>
    ELSE <<Tr[k].position>> \o PathToRoot(Tr, Tr[k].parent)

\* the walk from node k up to the root, reversed to run start to goal
RECURSIVE construct_path(_, _)
construct_path(Tr, k) ==
    IF k = 0 THEN <<>>
    ELSE Append(construct_path(Tr, Tr[k].parent), Tr[k].position)

(* ---------------------------- controller ----------------------------- *)

\* PIDController.__init__: gains in hundredths
PIDController(kp, ki, kd) ==
    [kp |-> kp, ki |-> ki, kd |-> kd, setpoint |-> 0, previous_error |-> 0, integral |-> 0]

\* the follower's dt = 0.01, in hundredths
PidDt == 1
Kp == 45
Ki == 0
Kd == 50
max_speed == 1000
min_speed == 100
slowdown_distance == 100
\* arrival threshold 0.05
ArriveDist == 5

\* PIDController.compute: the controller after the call (integral in 1e-4 units)
PidAfter(pid, current_value, dt) ==
    LET error == pid.setpoint - current_value
    IN [pid EXCEPT !.integral = pid.integral + error * dt, !.previous_error = error]

\* PIDController.compute: the value returned, in hundredths
PidOutput(pid, current_value, dt) ==
    LET error == pid.setpoint - current_value
        p_term == RoundDiv(pid.kp * error, Unit)
        i_term == RoundDiv(pid.ki * (pid.integral + error * dt), Unit * Unit)
        d_term == RoundDiv(pid.kd * (error - pid.previous_error), dt)
    IN p_term + i_term + d_term

ArrivedAtOrWithin(ball_pos, end_pos) == Dist2(end_pos, ball_pos) <= ArriveDist * ArriveDist
\* distance_to_goal < 0.05
Arrived(ball_pos, end_pos) == Dist2(end_pos, ball_pos) < ArriveDist * ArriveDist

DesiredSpeed(d2) ==
    IF d2 < slowdown_distance * slowdown_distance
    THEN LET shaped == RoundDiv(RoundSqrt(d2) * max_speed, slowdown_distance)
         IN IF min_speed >= shaped THEN min_speed ELSE shaped
    ELSE max_speed

\* the control vector written to data.ctrl
ControlVector(cx, cy, speed) ==
    IF cx # 0 \/ cy # 0
    THEN LET mag == RoundSqrt(cx * cx + cy * cy)
         IN <<RoundDiv(RoundDiv(Unit * cx, mag) * speed, Unit),
              RoundDiv(RoundDiv(Unit * cy, mag) * speed, Unit)>>
    ELSE <<cx, cy>>

\* line_direction / line_length
LineDirectionNormalized(A, B) ==
    LET d == VSub(B, A)
    IN IF Norm2(d) = 0 THEN <<NaN, NaN>>
       ELSE <<RoundDiv(Unit * d[1], RoundSqrt(Norm2(d))), RoundDiv(Unit * d[2], RoundSqrt(Norm2(d)))>>

\* line 280, in 1e-4 units: only the second product is divided by the length
Deviation(A, B, P) ==
    LET len2 == Norm2(VSub(B, A))
    IN IF len2 = 0 THEN NaN
       ELSE (B[1] - A[1]) * (A[2] - P[2])
            - RoundDiv(Unit * (A[1] - P[1]) * (B[2] - A[2]), RoundSqrt(len2))

\* positions the simulation may report: at a waypoint, or 0.05 away from it
BallOffsets == {<<0, 0>>, <<3, 4>>}
BallPositions(p) ==
    {<<p[k][1] + o[1], p[k][2] + o[2]>> : k \in DOMAIN p, o \in BallOffsets}

(* ------------------------------- state ------------------------------- *)

\* pc is the position in __main__ and the function it is in.  T, iter: the
\* planner's tree and loop counter; ret, path: what it returned.  out: the
\* event lines printed (the per-tick debug prints of floats are left out).
\* xpos is data.xpos of the ball, ctrl is data.ctrl.  deviation_data grows in
\* step with time_data, which is therefore not kept.

VARIABLES pc, start_pos, goal_area, walls, T, iter, ret, path, out,
          smoothed_path, attempt,
          pid_x, pid_y, seg, xpos, ctrl, line_direction_normalized,
          deviation_data, time_elapsed

planVars == <<start_pos, goal_area, walls, T, iter, ret>>
smoothVars == <<smoothed_path, attempt>>
ctrlVars == <<pid_x, pid_y, seg, xpos, ctrl, line_direction_normalized,
              deviation_data, time_elapsed>>
vars == <<pc, start_pos, goal_area, walls, T, iter, ret, path, out,
          smoothed_path, attempt,
          pid_x, pid_y, seg, xpos, ctrl, line_direction_normalized,
          deviation_data, time_elapsed>>

\* start positions and goal areas kinodynamic_rrt is called with
Scenarios ==
    { [start |-> <<80, 0>>,  goal |-> MainGoal],
      [start |-> <<90, 0>>,  goal |-> MainGoal],
      [start |-> <<148, 0>>, goal |-> MainGoal],
      [start |-> <<39, 22>>, goal |-> CornerGoal] }

\* values sample_random_position may return
Samples == { <<150, 0>>, <<88, 0>>, <<87, 0>>, <<80, 0>>, <<44, 32>>, <<60, 22>> }

NoPID == PIDController(0, 0, 0)

CtrlIdle ==
    /\ pid_x = NoPID /\ pid_y = NoPID /\ seg = 0 /\ xpos = <<0, 0>> /\ ctrl = <<0, 0>>
    /\ line_direction_normalized = <<0, 0>> /\ deviation_data = <<>> /\ time_elapsed = 0

Init ==
    /\ pc = "rrt"
    /\ \E sc \in Scenarios : start_pos = sc.start /\ goal_area = sc.goal
    /\ walls = MainWalls
    /\ T = <<Node(start_pos, 0)>>
    /\ iter = 0
    /\ ret = "unset"
    /\ path = <<>>
    /\ out = <<>>
    /\ smoothed_path = <<>>
    /\ attempt = 0
    /\ CtrlIdle

(* --------------------------- kinodynamic_rrt ------------------------- *)

\* the node appended for a candidate xe reached from T[xnear] under control ue
NewNodeNoParent(Tr, xnear, xe, ue) == [Node(xe, 0) EXCEPT !.control = ue]
NewNode(Tr, xnear, xe, ue) == [Node(xe, xnear) EXCEPT !.control = ue]

\* one pass of the for loop
RRTIterate(xrand) ==
    /\ pc = "rrt"
    /\ iter < N
    /\ LET xnear == nearest(T, xrand)
           ue == choose_control(T[xnear].position, xrand)
           xe == simulate(T[xnear].position, ue)
           T1 == Append(T, NewNode(T, xnear, xe, ue))
       IN IF is_collision_free(xe, walls)
          THEN /\ T' = T1
               /\ IF is_in_goal_area(xe, goal_area)
                  THEN /\ out' = Append(out, <<"Reached goal area">>)
                       /\ ret' = "path"
                       /\ path' = construct_path(T1, Len(T1))
                       /\ pc' = "main"
                       /\ iter' = iter
                  ELSE /\ iter' = iter + 1
                       /\ UNCHANGED <<out, ret, path, pc>>
          ELSE /\ iter' = iter + 1
               /\ UNCHANGED <<T, out, ret, path, pc>>
    /\ UNCHANGED <<start_pos, goal_area, walls, smoothVars, ctrlVars>>

\* the budget is spent and the walk to the last node is handed back
RRTExhaustedPartial ==
    /\ pc = "rrt"
    /\ iter >= N
    /\ ret' = "path"
    /\ path' = construct_path(T, Len(T))
    /\ pc' = "main"
    /\ UNCHANGED <<start_pos, goal_area, walls, T, iter, out, smoothVars, ctrlVars>>

\* the loop ran N times: return None
RRTExhausted ==
    /\ pc = "rrt"
    /\ iter >= N
    /\ ret' = "None"
    /\ pc' = "main"
    /\ UNCHANGED <<start_pos, goal_area, walls, T, iter, path, out, smoothVars, ctrlVars>>

(* ----------------------------- smooth_path --------------------------- *)

\* smoothed_path[:i + 1] + smoothed_path[j:], with 1-based i < j
SpliceDropEnd(sp, i, j) == SubSeq(sp, 1, i) \o SubSeq(sp, j + 1, Len(sp))
SpliceDuplicate(sp, i, j) == SubSeq(sp, 1, j) \o SubSeq(sp, i, Len(sp))
Splice(sp, i, j) == SubSeq(sp, 1, i) \o SubSeq(sp, j, Len(sp))

\* one pass of the for loop: random.sample picks two distinct indices
SmoothAttempt(i, j) ==
    /\ pc = "smooth"
    /\ attempt < max_attempts
    /\ Len(smoothed_path) > 2
    /\ i < j
    /\ smoothed_path' =
          IF is_collision_free_line(smoothed_path[i], smoothed_path[j], walls)
          THEN Splice(smoothed_path, i, j)
          ELSE smoothed_path
    /\ attempt' = attempt + 1
    /\ UNCHANGED <<pc, planVars, path, out, ctrlVars>>

\* the loop is over (budget spent, or the break at two waypoints or fewer)
SmoothReturn ==
    /\ pc = "smooth"
    /\ attempt >= max_attempts \/ Len(smoothed_path) <= 2
    /\ pc' = "smoothed"
    /\ UNCHANGED <<planVars, path, out, smoothVars, ctrlVars>>

(* ------------------------------ __main__ ----------------------------- *)

\* if path: path = smooth_path(path, walls) is entered with a copy of path
MainSmooth ==
    /\ pc = "main"
    /\ ret = "path"
    /\ smoothed_path' = path
    /\ attempt' = 0
    /\ pc' = "smooth"
    /\ UNCHANGED <<planVars, path, out, ctrlVars>>

\* else: print("No path found"), then glfw.terminate()
MainNoPath ==
    /\ pc = "main"
    /\ ret # "path"
    /\ out' = Append(out, <<"No path found">>)
    /\ pc' = "done"
    /\ UNCHANGED <<planVars, path, smoothVars, ctrlVars>>

\* smooth_path returned: plot, open the window, build the two controllers and
\* call move_ball_along_path_with_pid; the simulation's ball is wherever the
\* loaded model puts it
MainControl(ball) ==
    /\ pc = "smoothed"
    /\ path' = smoothed_path
    /\ pid_x' = PIDController(Kp, Ki, Kd)
    /\ pid_y' = PIDController(Kp, Ki, Kd)
    /\ xpos' = ball
    /\ seg' = 0
    /\ time_elapsed' = 0
    /\ deviation_data' = <<>>
    /\ pc' = "ctrl_seg"
    /\ UNCHANGED <<planVars, out, smoothVars, ctrl, line_direction_normalized>>

(* -------------------- move_ball_along_path_with_pid ------------------ *)

\* segment seg runs from path[seg + 1] to path[seg + 2] (1-based)
SegStart == path[seg + 1]
SegEnd == path[seg + 2]

EnterPidReset(pid, sp) == [pid EXCEPT !.setpoint = sp, !.integral = 0, !.previous_error = 0]
EnterPid(pid, sp) == [pid EXCEPT !.setpoint = sp]

\* top of the for loop body: lines 212-221
CtrlEnterSegment ==
    /\ pc = "ctrl_seg"
    /\ seg < Len(path) - 1
    /\ line_direction_normalized' = LineDirectionNormalized(SegStart, SegEnd)
    /\ pid_x' = EnterPid(pid_x, SegEnd[1])
    /\ pid_y' = EnterPid(pid_y, SegEnd[2])
    /\ pc' = "ctrl_tick"
    /\ UNCHANGED <<planVars, path, out, smoothVars, seg, xpos, ctrl,
                   deviation_data, time_elapsed>>

\* the for loop is exhausted: return, then glfw.terminate()
CtrlReturn ==
    /\ pc = "ctrl_seg"
    /\ seg >= Len(path) - 1
    /\ pc' = "done"
    /\ UNCHANGED <<planVars, path, out, smoothVars, ctrlVars>>

\* while pass that breaks: the ball is within the arrival threshold
CtrlArrive ==
    /\ pc = "ctrl_tick"
    /\ Arrived(xpos, SegEnd)
    /\ out' = Append(out, <<"Reached node", seg + 1>>)
    /\ seg' = seg + 1
    /\ pc' = "ctrl_seg"
    /\ UNCHANGED <<planVars, path, smoothVars, pid_x, pid_y, xpos, ctrl,
                   line_direction_normalized, deviation_data, time_elapsed>>

\* while pass that controls: PID, speed shaping, one mj_step moving the ball
\* to newpos, deviation of the (updated) ball position
CtrlTick(newpos) ==
    /\ pc = "ctrl_tick"
    /\ ~Arrived(xpos, SegEnd)
    /\ time_elapsed < MaxTicks
    /\ LET speed == DesiredSpeed(Dist2(SegEnd, xpos))
           cx == PidOutput(pid_x, xpos[1], PidDt)
           cy == PidOutput(pid_y, xpos[2], PidDt)
       IN ctrl' = ControlVector(cx, cy, speed)
    /\ pid_x' = PidAfter(pid_x, xpos[1], PidDt)
    /\ pid_y' = PidAfter(pid_y, xpos[2], PidDt)
    /\ xpos' = newpos
    /\ deviation_data' = Append(deviation_data, Deviation(SegStart, SegEnd, newpos))
    /\ time_elapsed' = time_elapsed + PidDt
    /\ UNCHANGED <<pc, planVars, path, out, smoothVars, seg, line_direction_normalized>>

(* --------------------------- specifications -------------------------- *)

Next ==
    \/ \E xrand \in Samples : RRTIterate(xrand)
    \/ RRTExhausted
    \/ MainSmooth
    \/ MainNoPath
    \/ \E i, j \in 1 .. Len(smoothed_path) : SmoothAttempt(i, j)
    \/ SmoothReturn
    \/ \E ball \in BallPositions(smoothed_path) : MainControl(ball)
    \/ CtrlEnterSegment
    \/ CtrlReturn
    \/ CtrlArrive
    \/ \E newpos \in BallPositions(path) : CtrlTick(newpos)

Spec == Init /\ [][Next]_vars

\* smooth_path called on its own, with any path and obstacle set
SmoothPoints == { <<39, 22>>, <<41, 26>>, <<30, 30>> }
PathsOver(S) == UNION { [1 .. n -> S] : n \in 1 .. MaxLen }

InitSmooth ==
    /\ pc = "smooth"
    /\ path \in PathsOver(SmoothPoints)
    /\ walls \in {MainWalls, {}}
    /\ smoothed_path = path
    /\ attempt = 0
    /\ start_pos = path[1] /\ goal_area = MainGoal /\ T = <<>> /\ iter = 0
    /\ ret = "path" /\ out = <<>>
    /\ CtrlIdle

NextSmooth ==
    \/ \E i, j \in 1 .. Len(smoothed_path) : SmoothAttempt(i, j)
    \/ SmoothReturn

SpecSmooth == InitSmooth /\ [][NextSmooth]_vars

\* move_ball_along_path_with_pid called on its own, with any path
CtrlPoints == { <<0, 0>>, <<10, 0>> }

InitCtrl ==
    /\ pc = "ctrl_seg"
    /\ path \in PathsOver(CtrlPoints)
    /\ walls = MainWalls
    /\ smoothed_path = path
    /\ attempt = 0
    /\ start_pos = path[1] /\ goal_area = MainGoal /\ T = <<>> /\ iter = 0
    /\ ret = "path" /\ out = <<>>
    /\ pid_x = PIDController(Kp, Ki, Kd)
    /\ pid_y = PIDController(Kp, Ki, Kd)
    /\ seg = 0
    /\ xpos \in BallPositions(path)
    /\ ctrl = <<0, 0>>
    /\ line_direction_normalized = <<0, 0>>
    /\ deviation_data = <<>>
    /\ time_elapsed = 0

NextCtrl ==
    \/ CtrlEnterSegment
    \/ CtrlReturn
    \/ CtrlArrive
    \/ \E newpos \in BallPositions(path) : CtrlTick(newpos)

SpecCtrl == InitCtrl /\ [][NextCtrl]_vars

(* ------------------------------- claims ------------------------------ *)

InWorkspace(p) ==
    Le(XMin, p[1]) /\ Le(p[1], XMax) /\ Le(YMin, p[2]) /\ Le(p[2], YMax)

OutsideExpandedBoxes(p, ws) ==
    \A w \in ws :
        \/ Lt(p[1], SetMin(Xs(w.coordinates)) - safety_margin)
        \/ Gt(p[1], SetMax(Xs(w.coordinates)) + safety_margin)
        \/ Lt(p[2], SetMin(Ys(w.coordinates)) - safety_margin)
        \/ Gt(p[2], SetMax(Ys(w.coordinates)) + safety_margin)

\* C1: every node held in the tree T, the root included, lies inside the
\* workspace bounds and outside every obstacle box expanded by the safety
\* margin.
C1_TreeNodesCollisionFree ==
    \A k \in DOMAIN T :
        /\ InWorkspace(T[k].position)
        /\ OutsideExpandedBoxes(T[k].position, walls)

RrtPathHeld == ret = "path" /\ pc \in {"main", "smooth", "smoothed"}

\* the waypoints are the positions of a parent chain from the root to the last node
IsParentChain(pth, Tr) ==
    \E f \in [1 .. Len(pth) -> 1 .. Len(Tr)] :
        /\ f[1] = 1
        /\ f[Len(pth)] = Len(Tr)
        /\ \A i \in 1 .. Len(pth) : pth[i] = Tr[f[i]].position
        /\ \A i \in 1 .. (Len(pth) - 1) : Tr[f[i + 1]].parent = f[i]

\* C2: a returned path comes from the iteration that appended the first
\* accepted candidate inside the goal box; it is non-empty, starts at
\* start_pos, ends inside the goal box, and is the parent chain of the goal
\* node read from the root down.
C2_ReturnedPathIsGoalChain ==
    /\ pc = "rrt" => \A k \in 2 .. Len(T) : ~is_in_goal_area(T[k].position, goal_area)
    /\ RrtPathHeld =>
          /\ Len(path) >= 1
          /\ path[1] = start_pos
          /\ is_in_goal_area(path[Len(path)], goal_area)
          /\ \A k \in 2 .. (Len(T) - 1) : ~is_in_goal_area(T[k].position, goal_area)
          /\ Len(T) >= 2
          /\ is_in_goal_area(T[Len(T)].position, goal_area)
          /\ iter < N
          /\ IsParentChain(path, T)

C2_Witness ==
    /\ RrtPathHeld
    /\ Len(path) >= 3
    /\ Len(T) > Len(path)

\* C3: the planner stops within N iterations with at most N + 1 nodes; when
\* the budget is spent without a goal node it returns None, never a path; the
\* caller then prints "No path found" and starts neither smoothing nor control.
C3_ExhaustedReturnsNone ==
    /\ iter <= N
    /\ Len(T) <= N + 1
    /\ (pc = "rrt" /\ iter = N) => ~ENABLED (\E xrand \in Samples : RRTIterate(xrand))
    /\ (pc # "rrt" /\ iter = N) =>
          /\ ret = "None"
          /\ path = <<>>
          /\ \A k \in 2 .. Len(T) : ~is_in_goal_area(T[k].position, goal_area)
          /\ pc \in {"main", "done"}
          /\ pc = "done" => out = << <<"No path found">> >>
          /\ smoothed_path = <<>> /\ attempt = 0 /\ CtrlIdle
    /\ ret = "None" => iter = N

C3_Witness ==
    /\ pc = "done"
    /\ ret = "None"
    /\ Len(T) = N + 1

\* C4: smooth_path runs to its return within its attempt budget, and after
\* every attempt and on return the working path is non-empty and keeps the
\* input's first and last waypoints.
C4_SmoothKeepsEndpoints ==
    pc \in {"smooth", "smoothed"} =>
        /\ attempt <= max_attempts
        /\ Len(smoothed_path) >= 1
        /\ smoothed_path[1] = path[1]
        /\ smoothed_path[Len(smoothed_path)] = path[Len(path)]
        /\ pc = "smooth" => ENABLED NextSmooth

C4_Witness ==
    /\ pc = "smoothed"
    /\ attempt >= 1
    /\ Len(smoothed_path) < Len(path)

\* q is p with exactly the waypoints strictly between positions i < j removed
RemovedBetween(p, q, i, j) ==
    /\ Len(q) = Len(p) - (j - i - 1)
    /\ \A k \in 1 .. i : q[k] = p[k]
    /\ \A k \in j .. Len(p) : q[k - (j - i - 1)] = p[k]

\* q keeps a selection of p's waypoints in p's order
IsSubsequence(q, p) ==
    \E f \in [1 .. Len(q) -> 1 .. Len(p)] :
        /\ \A k \in 1 .. Len(q) : q[k] = p[f[k]]
        /\ \A k \in 1 .. (Len(q) - 1) : f[k] < f[k + 1]

C5_AttemptShrinks ==
    /\ Len(smoothed_path') <= Len(smoothed_path)
    /\ \/ smoothed_path' = smoothed_path
       \/ \E i, j \in 1 .. Len(smoothed_path) :
             i < j /\ RemovedBetween(smoothed_path, smoothed_path', i, j)

\* C5: no attempt of smooth_path lengthens the working path: each leaves it
\* unchanged or removes exactly the waypoints strictly between two indices
\* i < j, so the working path stays an order-preserving subsequence of the
\* input, never longer than it.
C5_SmoothOnlyRemoves ==
    /\ [](pc \in {"smooth", "smoothed"} =>
            Len(smoothed_path) <= Len(path) /\ IsSubsequence(smoothed_path, path))
    /\ [][C5_AttemptShrinks]_vars

C5_Witness ==
    /\ pc = "smoothed"
    /\ Len(path) = 3
    /\ Len(smoothed_path) = 2

\* C6: every pair of consecutive waypoints of the path smooth_path returns
\* for a planner path passes is_collision_free_line.
C6_SmoothedPiecewiseFree ==
    pc = "smoothed" =>
        \A k \in 1 .. (Len(smoothed_path) - 1) :
            is_collision_free_line(smoothed_path[k], smoothed_path[k + 1], walls)

HasNaN(v) == \E k \in DOMAIN v : IsNaN(v[k])

\* C7: the follower never divides by a zero segment length: neither the
\* normalised segment direction nor a recorded deviation is the nan of 0/0,
\* and a segment with identical endpoints is left without a control tick.
C7_DegenerateSegmentGuarded ==
    /\ ~HasNaN(line_direction_normalized)
    /\ ~HasNaN(deviation_data)
    /\ (pc = "ctrl_tick" /\ SegStart = SegEnd) => ENABLED CtrlArrive

TreeInv ==
    /\ Len(T) >= 1
    /\ T[1].parent = 0
    /\ T[1].position = start_pos
    /\ \A k \in 2 .. Len(T) : T[k].parent \in 1 .. (k - 1)

AppendOnly ==
    /\ Len(T') \in {Len(T), Len(T) + 1}
    /\ SubSeq(T', 1, Len(T)) = T

\* C9: T is one rooted tree: only the first node, at start_pos, has no
\* parent; every other node's parent is a node appended before it (so parent
\* links reach the root without a cycle); and T only ever grows by appending,
\* leaving every existing node as it was.
C9_SingleRootedAppendOnlyTree == []TreeInv /\ [][AppendOnly]_vars

C9_Witness ==
    /\ Len(T) = N + 1
    /\ \E k \in 3 .. Len(T) : T[k].parent # 1
    /\ \E k \in 3 .. Len(T) : T[k].parent = 1

Within005(p, q) ==
    (p[1] - q[1]) * (p[1] - q[1]) + (p[2] - q[2]) * (p[2] - q[2]) < 25

C8_LeaveOnlyOnArrival ==
    seg' # seg =>
        /\ seg' = seg + 1
        /\ pc = "ctrl_tick"
        /\ Within005(xpos, path[seg + 2])
        /\ UNCHANGED <<pid_x, pid_y, ctrl, xpos, deviation_data, time_elapsed>>

C8_ReturnOnlyAtEnd ==
    (pc = "ctrl_seg" /\ pc' = "done") => seg = Len(path) - 1

\* C8: the follower's segment index only ever advances by one, and only on
\* a tick that reads the ball at distance < 0.05 from the segment's endpoint;
\* that tick leaves both controllers, data.ctrl and the simulation untouched;
\* the function returns only with every segment left this way.
C8_SegmentsInOrder ==
    /\ [](seg \in 0 .. (Len(path) - 1))
    /\ [][C8_LeaveOnlyOnArrival]_vars
    /\ [][C8_ReturnOnlyAtEnd]_vars

C8_Witness ==
    /\ pc = "done"
    /\ seg = 2
    /\ time_elapsed >= 1
    /\ path[2] # path[3]

C10_EnterSetsOnlySetpoints ==
    /\ (pc = "ctrl_seg" /\ pc' = "ctrl_tick") =>
          /\ pid_x'.setpoint = path[seg + 2][1]
          /\ pid_y'.setpoint = path[seg + 2][2]
          /\ \A f \in {"kp", "ki", "kd", "previous_error", "integral"} :
                pid_x'[f] = pid_x[f] /\ pid_y'[f] = pid_y[f]
    /\ (pc = "ctrl_tick" /\ pc' = "ctrl_seg") => UNCHANGED <<pid_x, pid_y>>

\* C10: entering a segment writes the endpoint into the two setpoints and
\* nothing else of the controllers, and leaving the previous segment writes
\* nothing at all: gains, integral and previous_error are the ones the last
\* compute call left.
C10_SegmentEntryKeepsPidMemory == [][C10_EnterSetsOnlySetpoints]_vars

C10_Witness ==
    /\ pc = "ctrl_tick"
    /\ seg >= 1
    /\ pid_x.integral # 0
    /\ pid_x.previous_error # 0
    /\ pid_x.setpoint # path[seg + 1][1]

====
